---- MODULE Spec2Model ----
(***************************************************************************)
(* Contact maps (contact_map.py): the per-frame contact detector, the      *)
(* multi-frame frequency aggregation, the ContactCount queries and the     *)
(* contact difference.                                                     *)
(*                                                                         *)
(* Atom and residue indices are the 0-based indices of the topology.  A    *)
(* tuple indexed by such an index holds the entry of index i at position   *)
(* i + 1.  A pair is the frozenset key of the code: the set of its         *)
(* members.  A Counter is the sequence of its items in iteration order.    *)
(* A number is an exact fraction [n, d] with d > 0 in lowest terms.        *)
(***************************************************************************)
EXTENDS Integers, Sequences, FiniteSets, TLC

VARIABLES hashOrder, a, b, dif, out

vars == <<hashOrder, a, b, dif, out>>

-----------------------------------------------------------------------------
(* Bounds of the explored inputs.                                          *)

\* largest n_neighbors_ignored passed to a constructor
MaxK == 1

\* longest explicit `frames` list passed to ContactFrequency
MaxFrames == 2

-----------------------------------------------------------------------------
(* The topology (mdtraj): atoms, their residues, the residues' chains.     *)

\* three residues in one chain; residue 0 has two atoms
TopologyOneChain ==
    [atomResidue |-> <<0, 0, 1, 2>>, residueChain |-> <<0, 0, 0>>]

\* the same residues, the last one in a chain of its own
TopologyTwoChains ==
    [atomResidue |-> <<0, 0, 1, 2>>, residueChain |-> <<0, 0, 1>>]

Topologies == {TopologyOneChain, TopologyTwoChains}

n_atoms(topology) == Len(topology.atomResidue)

n_residues(topology) == Len(topology.residueChain)

AtomIdxs(topology) == 0 .. (n_atoms(topology) - 1)

ResidueIdxs(topology) == 0 .. (n_residues(topology) - 1)

\* topology.atom(idx).residue.index
AtomResidueIdx(topology, atom_idx) == topology.atomResidue[atom_idx + 1]

\* [res.index for res in residue.chain.residues]
ChainResidueIdxs(topology, residue_idx) ==
    {r \in ResidueIdxs(topology) :
        topology.residueChain[r + 1] = topology.residueChain[residue_idx + 1]}

\* [atom.index for atom in residue.atoms]
ResidueAtomIdxs(topology, residue_idx) ==
    {x \in AtomIdxs(topology) : AtomResidueIdx(topology, x) = residue_idx}

\* topology.select("not water and not symbol == 'H'"): every atom of the
\* modelled topologies is a heavy, non-water atom
SelectHeavy(topology) == AtomIdxs(topology)

\* topology.atom(idx): the Atom object of an index
AtomObject(topology, idx) ==
    [index |-> idx, residue |-> AtomResidueIdx(topology, idx)]

\* topology.residue(idx): the Residue object of an index
ResidueObject(topology, idx) ==
    [index |-> idx, chain |-> topology.residueChain[idx + 1]]

-----------------------------------------------------------------------------
(* Numbers.                                                                *)

Abs(x) == IF x < 0 THEN -x ELSE x

RECURSIVE GCD(_, _)
GCD(x, y) == IF y = 0 THEN x ELSE GCD(y, x % y)

\* the fraction n / d, d > 0, in lowest terms
Rat(n, d) ==
    LET g == GCD(Abs(n), d)
    IN  [n |-> IF n < 0 THEN -(Abs(n) \div g) ELSE n \div g, d |-> d \div g]

IntNum(i) == [n |-> i, d |-> 1]

Zero == IntNum(0)

One == IntNum(1)

RatAdd(x, y) == Rat(x.n * y.d + y.n * x.d, x.d * y.d)

RatSub(x, y) == Rat(x.n * y.d - y.n * x.d, x.d * y.d)

RatLess(x, y) == x.n * y.d < y.n * x.d

RatLeq(x, y) == x.n * y.d <= y.n * x.d

-----------------------------------------------------------------------------
(* Pairs and Counters.                                                     *)

SetMin(S) == CHOOSE x \in S : \A y \in S : x <= y

SetMax(S) == CHOOSE x \in S : \A y \in S : y <= x

\* natural pair order: by smaller index, then by larger index
PairLess(p, q) ==
    \/ SetMin(p) < SetMin(q)
    \/ SetMin(p) = SetMin(q) /\ SetMax(p) < SetMax(q)

\* the iteration order of a set of frozensets is fixed by the hashes of the
\* interpreter build: one of the orders of HashOrders, the same for a run
HashOrders == {"ascending", "descending"}

HashBefore(order, p, q) ==
    IF order = "ascending" THEN PairLess(p, q) ELSE PairLess(q, p)

RECURSIVE SetIteration(_, _)
SetIteration(order, S) ==
    IF S = {} THEN <<>>
    ELSE LET first == CHOOSE p \in S :
                          \A q \in S \ {p} : HashBefore(order, p, q)
         IN  <<first>> \o SetIteration(order, S \ {first})

CounterKeys(counter) == {counter[i].key : i \in 1 .. Len(counter)}

CounterHas(counter, key) == key \in CounterKeys(counter)

\* the place of key among the items, 0 for a missing key
CounterIndex(counter, key) ==
    IF CounterHas(counter, key)
    THEN (CHOOSE i \in 1 .. Len(counter) : counter[i].key = key)
    ELSE 0

CounterValue(counter, key) ==
    IF CounterHas(counter, key)
    THEN counter[CounterIndex(counter, key)].val
    ELSE Zero

\* counter[key] = val: an existing key keeps its place, a new one is appended
CounterSet(counter, key, val) ==
    IF CounterHas(counter, key)
    THEN [counter EXCEPT ![CounterIndex(counter, key)].val = val]
    ELSE Append(counter, [key |-> key, val |-> val])

\* collections.Counter(a_set): every element counted once, in the set's
\* iteration order
CounterOfSet(order, S) ==
    LET it == SetIteration(order, S)
    IN  [i \in 1 .. Len(it) |-> [key |-> it[i], val |-> One]]

-----------------------------------------------------------------------------
(* residue_neighborhood and the per-object index maps.                     *)

\* range(-n, n): the neighbor n places up the chain is left out
residue_neighborhood_short(topology, residue_idx, n) ==
    LET neighborhood == {residue_idx + i : i \in (-n) .. (n - 1)}
        chain == ChainResidueIdxs(topology, residue_idx)
    IN  {idx \in neighborhood : idx \in chain}

residue_neighborhood(topology, residue_idx, n) ==
    LET neighborhood == {residue_idx + i : i \in (-n) .. n}
        chain == ChainResidueIdxs(topology, residue_idx)
    IN  {idx \in neighborhood : idx \in chain}

\* ContactObject.__init__: the fields every contact object has
ContactObject(kind, topology, query, haystack, cutoff, n_neighbors_ignored) ==
    [kind |-> kind,
     topology |-> topology,
     cutoff |-> cutoff,
     query |-> IF query = <<>> THEN SelectHeavy(topology) ELSE query[1],
     haystack |-> IF haystack = <<>> THEN SelectHeavy(topology)
                  ELSE haystack[1],
     n_neighbors_ignored |-> n_neighbors_ignored]

\* topology.atom(atom_idx) raises IndexError for an index past the last atom
QueryResolves(obj) == obj.query \subseteq AtomIdxs(obj.topology)

\* residue index -> query atoms of that residue
residue_query_atom_idxs(obj) ==
    LET keys == {AtomResidueIdx(obj.topology, x) : x \in obj.query}
    IN  [r \in keys |->
            {x \in obj.query : AtomResidueIdx(obj.topology, x) = r}]

\* residue index -> atoms of the residues in its neighborhood
residue_ignore_atom_idxs(obj) ==
    [r \in DOMAIN residue_query_atom_idxs(obj) |->
        UNION {ResidueAtomIdxs(obj.topology, idx) :
                 idx \in residue_neighborhood(obj.topology, r,
                                              obj.n_neighbors_ignored)}]

-----------------------------------------------------------------------------
(* ContactObject.contact_map: the contacts of one frame.                   *)

\* md.compute_neighborlist(trajectory, cutoff, frame_number): the frame's
\* candidate list of every atom; nothing lies within a cutoff that is not
\* positive
compute_neighborlist(trajectory, cutoff, frame_number) ==
    IF cutoff > 0 THEN trajectory.neighbors[frame_number + 1]
    ELSE [x \in 1 .. n_atoms(trajectory.topology) |-> {}]

\* the haystack is not looked at
ContactNeighbors_all(obj, neighborlist, ignore, atom_idx) ==
    neighborlist[atom_idx + 1] \ ignore

\* the atoms of the ignored residues are not taken out
ContactNeighbors_unexcluded(obj, neighborlist, ignore, atom_idx) ==
    neighborlist[atom_idx + 1] \cap obj.haystack

ContactNeighbors(obj, neighborlist, ignore, atom_idx) ==
    (neighborlist[atom_idx + 1] \ ignore) \cap obj.haystack

contact_pairs(obj, neighborlist, query_idxs, ignore_idxs) ==
    UNION {UNION {{{atom_idx, neighb} :
                      neighb \in ContactNeighbors(obj, neighborlist,
                                                  ignore_idxs[r], atom_idx)} :
                     atom_idx \in query_idxs[r]} :
             r \in DOMAIN query_idxs}

residue_pairs(obj, neighborlist, query_idxs, ignore_idxs) ==
    UNION {UNION {{{r, AtomResidueIdx(obj.topology, neighb)} :
                      neighb \in ContactNeighbors(obj, neighborlist,
                                                  ignore_idxs[r], atom_idx)} :
                     atom_idx \in query_idxs[r]} :
             r \in DOMAIN query_idxs}

contact_map(order, obj, trajectory, frame_number, query_idxs, ignore_idxs) ==
    LET neighborlist ==
            compute_neighborlist(trajectory, obj.cutoff, frame_number)
    IN  [atom_contacts |->
            CounterOfSet(order, contact_pairs(obj, neighborlist,
                                              query_idxs, ignore_idxs)),
         residue_contacts |->
            CounterOfSet(order, residue_pairs(obj, neighborlist,
                                              query_idxs, ignore_idxs))]

-----------------------------------------------------------------------------
(* Constructors.  A constructor yields the object, or the exception that   *)
(* ended it.                                                               *)

NoObj == [kind |-> "None"]

NoOut == [kind |-> "None"]

Raised(exception) == [ok |-> FALSE, exception |-> exception]

Built(obj) == [ok |-> TRUE, obj |-> obj]

\* ContactMap.__init__
ContactMap(order, frame, query, haystack, cutoff, n_neighbors_ignored) ==
    LET base == ContactObject("ContactMap", frame.topology, query, haystack,
                              cutoff, n_neighbors_ignored)
    IN  IF ~QueryResolves(base) THEN Raised("IndexError")
        ELSE LET maps == contact_map(order, base, frame, 0,
                                     residue_query_atom_idxs(base),
                                     residue_ignore_atom_idxs(base))
             IN  Built(base @@
                       [trajectory |-> frame,
                        frames |-> <<0>>,
                        n_frames |-> 1,
                        atom_counts |-> maps.atom_contacts,
                        residue_counts |-> maps.residue_contacts])

\* range(len(trajectory))
AllFrames(trajectory) == [i \in 1 .. Len(trajectory.neighbors) |-> i - 1]

\* Counter.update(other): the counts of other are added, in other's order
RECURSIVE CounterUpdateFrom(_, _, _)
CounterUpdateFrom(counter, other, i) ==
    IF i > Len(other) THEN counter
    ELSE CounterUpdateFrom(
             CounterSet(counter, other[i].key,
                        RatAdd(other[i].val,
                               CounterValue(counter, other[i].key))),
             other, i + 1)

\* dict.update(other): the counts of other replace the counts held
RECURSIVE CounterReplaceFrom(_, _, _)
CounterReplaceFrom(counter, other, i) ==
    IF i > Len(other) THEN counter
    ELSE CounterReplaceFrom(CounterSet(counter, other[i].key, other[i].val),
                            other, i + 1)

CounterUpdate_replace(counter, other) == CounterReplaceFrom(counter, other, 1)

\* the counter is rebound to the counts of the last frame
CounterUpdate_rebind(counter, other) == other

CounterUpdate(counter, other) == CounterUpdateFrom(counter, other, 1)

\* Counter._keep_positive: the items with a count of 0 or less are dropped
KeepPositive(counter) ==
    SelectSeq(counter, LAMBDA item : RatLess(Zero, item.val))

\* counter += other
CounterIAdd(counter, other) == KeepPositive(CounterUpdate(counter, other))

\* Counter.subtract(other): the counts of other are subtracted, in other's
\* order; counts of 0 and below stay
RECURSIVE CounterSubtractFrom(_, _, _)
CounterSubtractFrom(counter, other, i) ==
    IF i > Len(other) THEN counter
    ELSE CounterSubtractFrom(
             CounterSet(counter, other[i].key,
                        RatSub(CounterValue(counter, other[i].key),
                               other[i].val)),
             other, i + 1)

\* counter - other: the counts of 0 and below are dropped
CounterSubtract_positive(counter, other) ==
    KeepPositive(CounterSubtractFrom(counter, other, 1))

CounterSubtract(counter, other) == CounterSubtractFrom(counter, other, 1)

\* ContactFrequency._build_contact_map: the loop over self.frames, from its
\* i-th entry on
RECURSIVE BuildFrom(_, _, _, _, _, _)
BuildFrom(order, obj, query_idxs, ignore_idxs, i, counts) ==
    IF i > Len(obj.frames) THEN counts
    ELSE LET frame_contacts ==
                 contact_map(order, obj, obj.trajectory, obj.frames[i],
                             query_idxs, ignore_idxs)
         IN  BuildFrom(order, obj, query_idxs, ignore_idxs, i + 1,
                 [atom_counts |->
                      CounterUpdate(counts.atom_counts,
                                    frame_contacts.atom_contacts),
                  residue_counts |->
                      CounterIAdd(counts.residue_counts,
                                  frame_contacts.residue_contacts)])

_build_contact_map(order, obj) ==
    BuildFrom(order, obj, residue_query_atom_idxs(obj),
              residue_ignore_atom_idxs(obj), 1,
              [atom_counts |-> <<>>, residue_counts |-> <<>>])

\* ContactFrequency.__init__; k is n_neighbors_ignored; frames is <<>> for
\* None, else <<the list>>
ContactFrequency(order, trajectory, query, haystack, cutoff, k, frames) ==
    LET base == ContactObject("ContactFrequency", trajectory.topology, query,
                              haystack, cutoff, k)
        fs == IF frames = <<>> THEN AllFrames(trajectory) ELSE frames[1]
        obj == base @@ [trajectory |-> trajectory,
                        frames |-> fs,
                        n_frames |-> Len(fs)]
    IN  IF ~QueryResolves(base) THEN Raised("IndexError")
        ELSE Built(obj @@ _build_contact_map(order, obj))

\* ContactDifference.__init__: the operands are kept by reference, the
\* parameters are copied from the positive one
ContactDifference(positive_obj, positive, negative) ==
    ContactObject("ContactDifference", positive_obj.topology,
                  <<positive_obj.query>>, <<positive_obj.haystack>>,
                  positive_obj.cutoff, positive_obj.n_neighbors_ignored)
    @@ [positive |-> positive, negative |-> negative]

\* self - other: ContactObject.__sub__, overridden by ContactDifference
Subtraction(self_obj, self, other) ==
    IF self_obj.kind = "ContactDifference"
    THEN Raised("NotImplementedError")
    ELSE Built(ContactDifference(self_obj, self, other))

-----------------------------------------------------------------------------
(* ContactCount and the accessors atom_contacts and residue_contacts.      *)

Levels == {"atom", "residue"}

RawCounts(obj, level) ==
    IF level = "atom" THEN obj.atom_counts ELSE obj.residue_counts

LevelSize(topology, level) ==
    IF level = "atom" THEN n_atoms(topology) ELSE n_residues(topology)

\* ContactCount.__init__; shared tells that the counter is the very Counter
\* object the contact object stores, not a new one
ContactCount(counter, shared, topology, level) ==
    [kind |-> "ContactCount",
     counter |-> counter,
     shared |-> shared,
     topology |-> topology,
     level |-> level,
     n_x |-> LevelSize(topology, level),
     n_y |-> LevelSize(topology, level)]

\* float(item[1]) / self.n_frames for every item, in a new Counter
Frequencies(counter, n_frames) ==
    [i \in 1 .. Len(counter) |->
        [key |-> counter[i].key, val |-> Rat(counter[i].val.n, n_frames)]]

\* atom_contacts / residue_contacts of ContactMap and ContactFrequency
StoredContacts(obj, level) ==
    IF obj.kind = "ContactFrequency"
    THEN ContactCount(Frequencies(RawCounts(obj, level), obj.n_frames),
                      FALSE, obj.topology, level)
    ELSE ContactCount(RawCounts(obj, level), TRUE, obj.topology, level)

\* the Counter itself, not a copy of it
CounterCopy_same(count) == count

\* collections.Counter(counter): a new Counter with the same items
CounterCopy(count) == [count EXCEPT !.shared = FALSE]

\* atom_contacts / residue_contacts of ContactDifference.  store is what the
\* positive operand stores afterwards: the subtraction happens in place, on
\* diff.
DifferenceContacts(obj, positive_obj, negative_obj, level) ==
    LET diff == CounterCopy(StoredContacts(positive_obj, level))
        subtracted ==
            CounterSubtract(diff.counter,
                            StoredContacts(negative_obj, level).counter)
    IN  [count |-> ContactCount(subtracted, FALSE, obj.topology, level),
         store |-> IF diff.shared THEN subtracted
                   ELSE RawCounts(positive_obj, level)]

-----------------------------------------------------------------------------
(* The queries of ContactCount.                                            *)

\* ContactCount.sparse_matrix: a dok_matrix, 0 wherever nothing was stored;
\* list(k)[1] does not exist for a key of one member
RECURSIVE MatrixFrom(_, _, _)
MatrixFrom(mtx, counter, i) ==
    IF i > Len(counter) THEN Built(mtx)
    ELSE LET k == counter[i].key
             v == counter[i].val
         IN  IF Cardinality(k) < 2 THEN Raised("IndexError")
             ELSE MatrixFrom([mtx EXCEPT ![<<SetMin(k), SetMax(k)>>] = v,
                                         ![<<SetMax(k), SetMin(k)>>] = v],
                             counter, i + 1)

\* only the cell of list(k) in its own order is set
RECURSIVE UpperFrom(_, _, _)
UpperFrom(mtx, counter, i) ==
    IF i > Len(counter) THEN Built(mtx)
    ELSE LET k == counter[i].key
         IN  UpperFrom([mtx EXCEPT ![<<SetMin(k), SetMax(k)>>] =
                                       counter[i].val],
                       counter, i + 1)

sparse_matrix_upper(count) ==
    UpperFrom([cell \in (0 .. (count.n_x - 1)) \X (0 .. (count.n_y - 1))
                  |-> Zero],
              count.counter, 1)

sparse_matrix(count) ==
    MatrixFrom([cell \in (0 .. (count.n_x - 1)) \X (0 .. (count.n_y - 1))
                   |-> Zero],
               count.counter, 1)

InsertAt(seq, place, x) ==
    SubSeq(seq, 1, place - 1) \o <<x>> \o SubSeq(seq, place, Len(seq))

\* sorted(items, key=itemgetter(1), reverse=True): a stable sort, so items of
\* equal count keep the order their Counter iterates them in
RECURSIVE SortedFrom(_, _, _)
SortedFrom(sorted, items, i) ==
    IF i > Len(items) THEN sorted
    ELSE LET ahead == {j \in 1 .. Len(sorted) :
                          RatLeq(items[i].val, sorted[j].val)}
         IN  SortedFrom(InsertAt(sorted, Cardinality(ahead) + 1, items[i]),
                        items, i + 1)

\* a sort that is not stable: an item goes ahead of the items of equal count
RECURSIVE UnstableFrom(_, _, _)
UnstableFrom(sorted, items, i) ==
    IF i > Len(items) THEN sorted
    ELSE LET ahead == {j \in 1 .. Len(sorted) :
                          RatLess(items[i].val, sorted[j].val)}
         IN  UnstableFrom(InsertAt(sorted, Cardinality(ahead) + 1, items[i]),
                          items, i + 1)

most_common_idx_unstable(count) == UnstableFrom(<<>>, count.counter, 1)

\* ContactCount.most_common_idx: Counter.most_common()
most_common_idx(count) == SortedFrom(<<>>, count.counter, 1)

\* self._object_f: topology.atom or topology.residue
ObjectOf(count, idx) ==
    IF count.level = "atom" THEN AtomObject(count.topology, idx)
    ELSE ResidueObject(count.topology, idx)

\* ContactCount.most_common(obj); obj is <<>> for None, else <<the object>>
most_common(count, obj) ==
    LET common == IF obj = <<>> THEN most_common_idx(count)
                  ELSE SelectSeq(most_common_idx(count),
                                 LAMBDA item : obj[1].index \in item.key)
    IN  [i \in 1 .. Len(common) |->
            [objects |-> {ObjectOf(count, idx) : idx \in common[i].key},
             key |-> common[i].key,
             val |-> common[i].val]]

\* ContactObject.most_common_atoms_for_residue, for a residue index: a
\* contact is listed once for each of its atoms that the residue has
RECURSIVE ForResidueFrom(_, _, _, _)
ForResidueFrom(results, common, residue_atoms, i) ==
    IF i > Len(common) THEN results
    ELSE LET hits == Cardinality(common[i].key \cap residue_atoms)
         IN  ForResidueFrom(
                 results \o [j \in 1 .. hits |-> common[i]],
                 common, residue_atoms, i + 1)

most_common_atoms_for_residue(count, residue_idx) ==
    ForResidueFrom(<<>>, most_common(count, <<>>),
                   ResidueAtomIdxs(count.topology, residue_idx), 1)

\* a member of a contact pair as the caller gives it: the Residue object of
\* an index, or the index itself
ResidueForms == {"object", "index"}

ResidueArgument(form, residue_idx) == [given |-> form, index |-> residue_idx]

\* res.index: an int has no attribute index
HasIndex(res) == res.given = "object"

\* ContactObject.most_common_atoms_for_contact, for res_A and res_B the
\* members of the pair in the order list(frozenset(contact_pair)) has them.
\* For a res_B without an index the handler binds resB_idx, and the lookup
\* of res_B_idx that follows finds the name unbound.
most_common_atoms_for_contact(count, res_A, res_B) ==
    IF ~HasIndex(res_B) THEN Raised("UnboundLocalError")
    ELSE LET atom_idxs_A == ResidueAtomIdxs(count.topology, res_A.index)
             atom_idxs_B == ResidueAtomIdxs(count.topology, res_B.index)
             all_atom_pairs ==
                 {{x, y} : x \in atom_idxs_A, y \in atom_idxs_B}
             common == SelectSeq(most_common_idx(count),
                                 LAMBDA contact : contact.key \in all_atom_pairs)
         IN  Built([i \in 1 .. Len(common) |->
                       [objects |-> {AtomObject(count.topology, idx) :
                                        idx \in common[i].key},
                        key |-> common[i].key,
                        val |-> common[i].val]])

-----------------------------------------------------------------------------
(* The inputs.                                                             *)

\* the atoms and the unordered pairs of the modelled topologies
Atoms == AtomIdxs(TopologyOneChain)

AtomPairs == {{x, y} : x \in Atoms, y \in Atoms} \ {{x} : x \in Atoms}

\* the candidate lists of a frame whose near pairs are S: the exact lists, or
\* lopsided ones that name the atom itself and only its partners of higher
\* index
ExactLists(S) ==
    [x \in 1 .. Cardinality(Atoms) |->
        {y \in Atoms : y # x - 1 /\ {x - 1, y} \in S}]

LopsidedLists(S) ==
    [x \in 1 .. Cardinality(Atoms) |->
        {x - 1} \cup {y \in Atoms : y > x - 1 /\ {x - 1, y} \in S}]

AnyLists ==
    {ExactLists(S) : S \in SUBSET AtomPairs}
    \cup {LopsidedLists(S) : S \in SUBSET AtomPairs}

\* the distances of a frame, in hundredths of a nanometre: every pair of
\* atoms is 0.30 nm or 0.60 nm apart
Distances == [AtomPairs -> {30, 60}]

\* the atoms other than atom_idx that lie within the cutoff of it
WithinCutoff(distances, cutoff, atom_idx) ==
    {y \in Atoms : y # atom_idx /\ distances[{atom_idx, y}] <= cutoff}

\* the candidate lists a neighbour search may return for these distances:
\* for every atom the atoms within the cutoff, and any further candidates
ConservativeLists(distances, cutoff) ==
    {[x \in 1 .. Cardinality(Atoms) |->
         WithinCutoff(distances, cutoff, x - 1) \cup further[x]] :
       further \in AnyLists}

\* a trajectory of three frames: atoms 0 and 1 near atom 3; atoms 0, 1, 2
\* near and atoms 1, 2 near 3; nothing near
Neighbors ==
    <<ExactLists({{0, 3}, {1, 3}}),
      ExactLists({{0, 1}, {0, 2}, {1, 3}, {2, 3}}),
      ExactLists({})>>

Trajectories(topologies) ==
    {[topology |-> t, neighbors |-> Neighbors] : t \in topologies}

\* trajectory[frame_number]: a trajectory of that one frame
Frame(trajectory, frame_number) ==
    [topology |-> trajectory.topology,
     neighbors |-> <<trajectory.neighbors[frame_number + 1]>>]

FrameNumbers == 0 .. (Len(Neighbors) - 1)

\* the default cutoff, 0.45 nm, in hundredths of a nanometre
DefaultCutoff == 45

\* query, haystack (<<>> for None) and cutoff: the defaults, a query and a
\* haystack apart, an empty query, an empty haystack, a query and a haystack
\* with an index past the topology, a cutoff of 0
Configs ==
    {[query |-> <<>>, haystack |-> <<>>, cutoff |-> DefaultCutoff],
     [query |-> <<{0, 1}>>, haystack |-> <<{2, 3}>>, cutoff |-> DefaultCutoff],
     [query |-> <<{}>>, haystack |-> <<>>, cutoff |-> DefaultCutoff],
     [query |-> <<>>, haystack |-> <<{}>>, cutoff |-> DefaultCutoff],
     [query |-> <<{0, 4}>>, haystack |-> <<>>, cutoff |-> DefaultCutoff],
     [query |-> <<{3}>>, haystack |-> <<{0, 4}>>, cutoff |-> DefaultCutoff],
     [query |-> <<>>, haystack |-> <<>>, cutoff |-> 0]}

\* the topology and the configurations of the objects that are subtracted
DifferenceTopologies == {TopologyTwoChains}

DifferenceConfigs ==
    {[query |-> <<>>, haystack |-> <<>>, cutoff |-> DefaultCutoff],
     [query |-> <<{0, 1}>>, haystack |-> <<{2, 3}>>, cutoff |-> DefaultCutoff]}

\* every set of atoms as query and as haystack
AnyConfigs ==
    {[query |-> <<q>>, haystack |-> <<h>>, cutoff |-> DefaultCutoff] :
        q \in SUBSET Atoms, h \in SUBSET Atoms}

\* query, haystack and cutoff of the contact maps detected from distances:
\* the defaults, a query and a haystack apart, overlapping, the same single
\* residue, and a cutoff of 0.70 nm
GeometryConfigs ==
    {[query |-> <<>>, haystack |-> <<>>, cutoff |-> DefaultCutoff],
     [query |-> <<{0, 1}>>, haystack |-> <<{2, 3}>>, cutoff |-> DefaultCutoff],
     [query |-> <<{1, 2}>>, haystack |-> <<{0, 1, 3}>>,
      cutoff |-> DefaultCutoff],
     [query |-> <<{3}>>, haystack |-> <<{0, 2}>>, cutoff |-> DefaultCutoff],
     [query |-> <<{0, 2}>>, haystack |-> <<{1, 3}>>, cutoff |-> 70]}

FrameLists(longest) ==
    UNION {[1 .. n -> FrameNumbers] : n \in 0 .. longest}

\* the frames argument: None, or a list of frame numbers
FramesArgs == {<<>>} \cup {<<fs>> : fs \in FrameLists(MaxFrames)}

DifferenceFramesArgs == {<<>>, <<<<1, 0>>>>}

DifferenceLists == {Neighbors[1], Neighbors[2]}

NegativeFrameNumbers == {0, 2}

\* the orders a list of frame numbers can be given in
Reorderings(fs) ==
    {[i \in 1 .. Len(fs) |-> fs[p[i]]] :
        p \in {q \in [1 .. Len(fs) -> 1 .. Len(fs)] :
                  \A i, j \in 1 .. Len(fs) : i # j => q[i] # q[j]}}

-----------------------------------------------------------------------------
(* The state: the interpreter's set order, the contact objects a and b,    *)
(* the difference dif, and what the last call returned or raised.          *)

Slots == {"a", "b"}

Deref(slot) == IF slot = "a" THEN a ELSE IF slot = "b" THEN b ELSE dif

Exception(name) == [kind |-> "Exception", exception |-> name]

InitAll ==
    /\ hashOrder \in HashOrders
    /\ a = NoObj
    /\ b = NoObj
    /\ dif = NoObj
    /\ out = NoOut

\* a = ContactMap(...) or a = ContactFrequency(...): the result of the call
Construct(result) ==
    /\ IF result.ok
       THEN a' = result.obj /\ out' = NoOut
       ELSE a' = a /\ out' = Exception(result.exception)
    /\ UNCHANGED <<hashOrder, b, dif>>

NewContactMap(topologies, configs, lists) ==
    /\ a = NoObj
    /\ \E t \in topologies, l \in lists, c \in configs, k \in 0 .. MaxK :
        Construct(ContactMap(hashOrder, [topology |-> t, neighbors |-> <<l>>],
                             c.query, c.haystack, c.cutoff, k))

\* a = ContactMap(frame, ...) for a frame of known distances, the neighbour
\* search returning any candidate lists that hold the atoms within the cutoff
NewContactMapOfDistances ==
    /\ a = NoObj
    /\ \E t \in Topologies, d \in Distances, c \in GeometryConfigs,
          k \in 0 .. MaxK :
          \E l \in ConservativeLists(d, c.cutoff) :
             Construct(ContactMap(hashOrder,
                                  [topology |-> t, neighbors |-> <<l>>,
                                   distances |-> <<d>>],
                                  c.query, c.haystack, c.cutoff, k))

NewContactFrequency(topologies, configs, args) ==
    /\ a = NoObj
    /\ \E trajectory \in Trajectories(topologies), c \in configs, k \in 0 .. MaxK,
       frames \in args :
        Construct(ContactFrequency(hashOrder, trajectory, c.query, c.haystack,
                                   c.cutoff, k, frames))

\* b = ContactFrequency(...) with the arguments of a, the frames reordered
NewPermutedFrequency ==
    /\ a.kind = "ContactFrequency"
    /\ b = NoObj
    /\ \E fs \in Reorderings(a.frames) :
          b' = ContactFrequency(hashOrder, a.trajectory, <<a.query>>,
                                <<a.haystack>>, a.cutoff,
                                a.n_neighbors_ignored, <<fs>>).obj
    /\ out' = NoOut
    /\ UNCHANGED <<hashOrder, a, dif>>

\* b = a contact object of the same topology and parameters as a
NewNegative ==
    /\ a # NoObj
    /\ b = NoObj
    /\ LET trajectory == [topology |-> a.topology, neighbors |-> Neighbors]
       IN  \/ \E n \in NegativeFrameNumbers :
                 b' = ContactMap(hashOrder, Frame(trajectory, n), <<a.query>>,
                                 <<a.haystack>>, a.cutoff,
                                 a.n_neighbors_ignored).obj
           \/ b' = ContactFrequency(hashOrder, trajectory, <<a.query>>,
                                    <<a.haystack>>, a.cutoff,
                                    a.n_neighbors_ignored, <<>>).obj
    /\ out' = NoOut
    /\ UNCHANGED <<hashOrder, a, dif>>

\* dif = p - n for two contact objects
Subtract ==
    /\ dif = NoObj
    /\ \E p \in Slots, n \in Slots :
          /\ Deref(p) # NoObj
          /\ Deref(n) # NoObj
          /\ dif' = Subtraction(Deref(p), p, n).obj
    /\ out' = NoOut
    /\ UNCHANGED <<hashOrder, a, b>>

\* the outcome of a subtraction that is not kept in dif
Returned(result) ==
    IF result.ok THEN result.obj ELSE Exception(result.exception)

\* dif - x
DifferenceMinus ==
    /\ dif # NoObj
    /\ \E x \in Slots :
          /\ Deref(x) # NoObj
          /\ out' = Returned(Subtraction(dif, "dif", x))
    /\ UNCHANGED <<hashOrder, a, b, dif>>

\* x - dif
MinusDifference ==
    /\ dif # NoObj
    /\ \E x \in Slots :
          /\ Deref(x) # NoObj
          /\ out' = Returned(Subtraction(Deref(x), x, "dif"))
    /\ UNCHANGED <<hashOrder, a, b, dif>>

\* slot.atom_contacts or slot.residue_contacts, and what the positive
\* operand of a difference stores once the property has run
Contacts(slot, level) ==
    IF slot = "dif"
    THEN DifferenceContacts(dif, Deref(dif.positive), Deref(dif.negative),
                            level)
    ELSE [count |-> StoredContacts(Deref(slot), level),
          store |-> RawCounts(Deref(slot), level)]

WithRawCounts(obj, level, counter) ==
    IF level = "atom" THEN [obj EXCEPT !.atom_counts = counter]
    ELSE [obj EXCEPT !.residue_counts = counter]

\* the objects after slot's contacts of a level were evaluated
Evaluated(slot, level) ==
    LET on == IF slot = "dif" THEN dif.positive ELSE slot
        store == Contacts(slot, level).store
    IN  /\ a' = IF on = "a" THEN WithRawCounts(a, level, store) ELSE a
        /\ b' = IF on = "b" THEN WithRawCounts(b, level, store) ELSE b
        /\ UNCHANGED <<hashOrder, dif>>

Readable(slot) == Deref(slot) # NoObj

Result(kind, slot, level, value) ==
    [kind |-> kind, slot |-> slot, level |-> level, value |-> value]

\* slot.atom_contacts.counter, slot.residue_contacts.counter
ReadContacts(slots) ==
    \E slot \in slots, level \in Levels :
        /\ Readable(slot)
        /\ out' = Result("counter", slot, level,
                         Contacts(slot, level).count.counter)
        /\ Evaluated(slot, level)

\* slot.atom_contacts.sparse_matrix, slot.residue_contacts.sparse_matrix
ReadSparseMatrix(slots) ==
    \E slot \in slots, level \in Levels :
        /\ Readable(slot)
        /\ LET mtx == sparse_matrix(Contacts(slot, level).count)
           IN  out' = IF mtx.ok
                      THEN Result("sparse_matrix", slot, level, mtx.obj)
                      ELSE Exception(mtx.exception)
        /\ Evaluated(slot, level)

\* slot.atom_contacts.most_common(obj), slot.residue_contacts.most_common(obj)
ReadMostCommon(slots) ==
    \E slot \in slots, level \in Levels :
        /\ Readable(slot)
        /\ LET count == Contacts(slot, level).count
           IN  \E obj \in {<<>>, <<ObjectOf(count, 0)>>} :
                  out' = [Result("most_common", slot, level,
                                 most_common(count, obj))
                          EXCEPT !.kind = IF obj = <<>> THEN "most_common"
                                          ELSE "most_common_of"]
        /\ Evaluated(slot, level)

\* slot.most_common_atoms_for_residue(residue_idx)
ReadMostCommonAtomsForResidue(slots) ==
    \E slot \in slots :
        /\ Readable(slot)
        /\ \E residue_idx \in ResidueIdxs(Deref(slot).topology) :
              out' = Result("most_common_atoms_for_residue", slot, "atom",
                            most_common_atoms_for_residue(
                                Contacts(slot, "atom").count, residue_idx))
        /\ Evaluated(slot, "atom")

\* slot.most_common_atoms_for_contact(contact_pair) for two distinct
\* residues, each given as an object or as an index; which member the
\* frozenset of the pair yields first depends on the hashes of the run
ReadMostCommonAtomsForContact(slots) ==
    \E slot \in slots :
        /\ Readable(slot)
        /\ \E r \in ResidueIdxs(Deref(slot).topology),
              s \in ResidueIdxs(Deref(slot).topology),
              form_A \in ResidueForms, form_B \in ResidueForms :
              /\ r # s
              /\ LET res_A == ResidueArgument(form_A, r)
                     res_B == ResidueArgument(form_B, s)
                     result == most_common_atoms_for_contact(
                                   Contacts(slot, "atom").count, res_A, res_B)
                 IN  out' = IF result.ok
                            THEN Result("most_common_atoms_for_contact", slot,
                                        "atom", result.obj)
                                 @@ [contact_pair |-> {res_A, res_B}]
                            ELSE Exception(result.exception)
        /\ Evaluated(slot, "atom")

-----------------------------------------------------------------------------
(* The specifications.                                                     *)

\* the frames of the trajectory, as ContactMap takes them
TrajectoryLists == {Neighbors[n + 1] : n \in FrameNumbers}

\* one ContactMap of any frame, query and haystack
NextDetect == NewContactMap(Topologies, AnyConfigs, AnyLists)

SpecDetect == InitAll /\ [][NextDetect]_vars

\* contact maps and frequencies of the trajectory, and rebuilt frequencies
Next ==
    \/ NewContactMap(Topologies, Configs, TrajectoryLists)
    \/ NewContactFrequency(Topologies, Configs, FramesArgs)
    \/ NewPermutedFrequency
    \/ ReadContacts(Slots)

Spec == InitAll /\ [][Next]_vars

\* two contact objects, their difference, and the queries on all three
NextDifference ==
    \/ NewContactMap(DifferenceTopologies, DifferenceConfigs, DifferenceLists)
    \/ NewContactFrequency(DifferenceTopologies, DifferenceConfigs,
                           DifferenceFramesArgs)
    \/ NewNegative
    \/ Subtract
    \/ DifferenceMinus
    \/ MinusDifference
    \/ ReadContacts({"a", "dif"})
    \/ ReadSparseMatrix({"a", "dif"})
    \/ ReadMostCommon({"a", "dif"})
    \/ ReadMostCommonAtomsForResidue({"a", "dif"})

SpecDifference == InitAll /\ [][NextDifference]_vars

\* one ContactMap of a frame of known distances
NextCandidates == NewContactMapOfDistances

SpecCandidates == InitAll /\ [][NextCandidates]_vars

\* a contact map or a contact frequency, asked for the atoms of a contact
NextContact ==
    \/ NewContactMap(Topologies, DifferenceConfigs, TrajectoryLists)
    \/ NewContactFrequency(Topologies, DifferenceConfigs, DifferenceFramesArgs)
    \/ ReadMostCommonAtomsForContact({"a"})

SpecContact == InitAll /\ [][NextContact]_vars

-----------------------------------------------------------------------------
(* Properties of the per-frame detector (SpecDetect).                      *)

\* residue s is in the chain of residue r and at most k places from it
WithinK(topology, r, s, k) ==
    /\ topology.residueChain[r + 1] = topology.residueChain[s + 1]
    /\ Abs(r - s) <= k

NoDuplicateKeys(counter) == Cardinality(CounterKeys(counter)) = Len(counter)

\* the candidate lists the single frame of a ContactMap was detected from
ListsOf(obj) == compute_neighborlist(obj.trajectory, obj.cutoff, 0)

\* C1: a ContactMap holds no atom pair of a query atom and an atom of a
\* residue of the same chain at most n_neighbors_ignored places from the query
\* atom's residue (its own residue included), it does not hold the pair of
\* these two residues either, and every pair it holds has two members.
C1_ExclusionCorrectness ==
    a.kind = "ContactMap" =>
        /\ \A x \in a.query, y \in AtomIdxs(a.topology) :
              LET r == AtomResidueIdx(a.topology, x)
                  s == AtomResidueIdx(a.topology, y)
              IN  WithinK(a.topology, r, s, a.n_neighbors_ignored) =>
                      /\ {x, y} \notin CounterKeys(a.atom_counts)
                      /\ {r, s} \notin CounterKeys(a.residue_counts)
        /\ \A p \in CounterKeys(a.atom_counts)
                        \cup CounterKeys(a.residue_counts) :
              Cardinality(p) = 2

\* a query atom has, among its candidates, a haystack atom of a neighbouring
\* residue, and its own index, while other contacts are reported
C1_Witness ==
    /\ a.kind = "ContactMap"
    /\ a.n_neighbors_ignored >= 1
    /\ a.atom_counts # <<>>
    /\ \E x \in a.query, y \in a.haystack :
          /\ y \in ListsOf(a)[x + 1]
          /\ x \in ListsOf(a)[x + 1]
          /\ AtomResidueIdx(a.topology, x) # AtomResidueIdx(a.topology, y)
          /\ WithinK(a.topology, AtomResidueIdx(a.topology, x),
                     AtomResidueIdx(a.topology, y), a.n_neighbors_ignored)

\* C2: the atom contacts of a ContactMap are exactly the pairs {x, y} of a
\* query atom x and an atom y that is a candidate of x, is in the haystack and
\* is not in the exclusion set of x's residue; each is counted once.
C2_DetectionResult ==
    a.kind = "ContactMap" =>
        /\ CounterKeys(a.atom_counts) =
              {{pr[1], pr[2]} :
                 pr \in {qy \in a.query \X AtomIdxs(a.topology) :
                           /\ qy[2] \in ListsOf(a)[qy[1] + 1]
                           /\ qy[2] \in a.haystack
                           /\ qy[2] \notin residue_ignore_atom_idxs(a)[
                                  AtomResidueIdx(a.topology, qy[1])]}}
        /\ NoDuplicateKeys(a.atom_counts)
        /\ \A i \in 1 .. Len(a.atom_counts) : a.atom_counts[i].val = One
        /\ \A p \in CounterKeys(a.atom_counts) :
              \E x \in p \cap a.query : (p \ {x}) \subseteq a.haystack

\* a query atom has a candidate outside the haystack, a candidate that is
\* excluded by residue though it is in the haystack, and a reported contact
C2_Witness ==
    /\ a.kind = "ContactMap"
    /\ \E x \in a.query :
          /\ \E y \in ListsOf(a)[x + 1] :
                y \notin a.haystack /\ {x, y} \notin CounterKeys(a.atom_counts)
          /\ \E y \in ListsOf(a)[x + 1] \cap a.haystack :
                /\ y \in residue_ignore_atom_idxs(a)[
                       AtomResidueIdx(a.topology, x)]
                /\ y # x
          /\ \E y \in ListsOf(a)[x + 1] :
                {x, y} \in CounterKeys(a.atom_counts)

-----------------------------------------------------------------------------
(* Properties of the frequency aggregation (Spec).                         *)

IsStored(obj) == obj.kind \in {"ContactMap", "ContactFrequency"}

\* the contacts contact_map finds in each entry of the object's frames
PerFrame(obj) ==
    [i \in 1 .. Len(obj.frames) |->
        LET found == contact_map(hashOrder, obj, obj.trajectory,
                                 obj.frames[i],
                                 residue_query_atom_idxs(obj),
                                 residue_ignore_atom_idxs(obj))
        IN  [atom |-> CounterKeys(found.atom_contacts),
             residue |-> CounterKeys(found.residue_contacts)]]

FrameContacts(obj, i, level) == PerFrame(obj)[i][level]

\* the number of entries whose contacts hold the pair
FramesWith(perFrame, level, pair) ==
    Cardinality({i \in DOMAIN perFrame : pair \in perFrame[i][level]})

\* every key a Counter of the level can have
KeysOf(topology, level) ==
    {{x, y} : x \in 0 .. (LevelSize(topology, level) - 1),
              y \in 0 .. (LevelSize(topology, level) - 1)}

FrequencyDefinition(obj) ==
    (obj.kind = "ContactFrequency" /\ obj.n_frames >= 1) =>
        LET perFrame == PerFrame(obj)
        IN  \A level \in Levels :
            LET raw == RawCounts(obj, level)
                exposed == StoredContacts(obj, level).counter
            IN  /\ NoDuplicateKeys(raw)
                /\ NoDuplicateKeys(exposed)
                /\ obj.n_frames = Len(obj.frames)
                /\ \A pair \in KeysOf(obj.topology, level) :
                      LET with == FramesWith(perFrame, level, pair)
                          f == CounterValue(exposed, pair)
                      IN  /\ CounterValue(raw, pair) = IntNum(with)
                          /\ CounterHas(raw, pair) <=> with > 0
                          /\ CounterHas(exposed, pair) <=> with > 0
                          /\ f = Rat(with, obj.n_frames)
                          /\ RatLeq(Zero, f) /\ RatLeq(f, One)
                          /\ (with = obj.n_frames) => (f = One)

\* C3: in a ContactFrequency over N >= 1 frame entries, at either level, the
\* tally of a pair is the number of entries whose frame has the pair in
\* contact, the frequency read from the object is tally / N, in [0, 1], and
\* exactly 1 for a pair in contact in every entry, and a pair in contact in no
\* entry is not a key.
C3_FrequencyDefinition ==
    /\ FrequencyDefinition(a)
    /\ FrequencyDefinition(b)
    /\ (/\ out.kind = "counter"
        /\ Deref(out.slot).kind = "ContactFrequency"
        /\ Deref(out.slot).n_frames >= 1) =>
            LET perFrame == PerFrame(Deref(out.slot))
            IN  \A pair \in KeysOf(Deref(out.slot).topology, out.level) :
                    CounterValue(out.value, pair) =
                        Rat(FramesWith(perFrame, out.level, pair),
                            Deref(out.slot).n_frames)

\* the residue frequencies of a ContactFrequency are read; one residue pair is
\* in contact in every entry, one in some entries only, and in one entry two
\* atom pairs make the same residue pair
C3_Witness ==
    /\ out.kind = "counter"
    /\ out.slot = "a"
    /\ out.level = "residue"
    /\ a.kind = "ContactFrequency"
    /\ a.n_frames >= 2
    /\ \E pair \in CounterKeys(out.value) :
          CounterValue(out.value, pair) = One
    /\ \E pair \in CounterKeys(out.value) :
          RatLess(CounterValue(out.value, pair), One)
    /\ \E i \in 1 .. Len(a.frames) :
          Cardinality(FrameContacts(a, i, "atom"))
              > Cardinality(FrameContacts(a, i, "residue"))

Items(counter) == {counter[i] : i \in 1 .. Len(counter)}

Occurrences(fs, v) == Cardinality({i \in 1 .. Len(fs) : fs[i] = v})

IsReordering(fs, gs) ==
    /\ Len(fs) = Len(gs)
    /\ \A v \in FrameNumbers : Occurrences(fs, v) = Occurrences(gs, v)

SameArguments(x, y) ==
    /\ x.trajectory = y.trajectory
    /\ x.query = y.query
    /\ x.haystack = y.haystack
    /\ x.cutoff = y.cutoff
    /\ x.n_neighbors_ignored = y.n_neighbors_ignored

\* C4: two ContactFrequency objects built with the same arguments over frame
\* lists that are reorderings of each other have the same tallies and the
\* same frequencies, at the atom level and at the residue level.
C4_OrderIndependence ==
    (/\ a.kind = "ContactFrequency"
     /\ b.kind = "ContactFrequency"
     /\ SameArguments(a, b)
     /\ IsReordering(a.frames, b.frames)) =>
        \A level \in Levels :
            /\ Items(RawCounts(a, level)) = Items(RawCounts(b, level))
            /\ Items(StoredContacts(a, level).counter)
                   = Items(StoredContacts(b, level).counter)

\* b was built over the frames of a in another order, the two frames have
\* different contacts, and the tallies were filled in a different order
C4_Witness ==
    /\ a.kind = "ContactFrequency"
    /\ b.kind = "ContactFrequency"
    /\ a.frames # b.frames
    /\ IsReordering(a.frames, b.frames)
    /\ a.atom_counts # b.atom_counts
    /\ \E i \in 1 .. Len(a.frames) :
          FrameContacts(a, i, "atom") # FrameContacts(b, i, "atom")

\* C9: no ContactMap or ContactFrequency exists whose query or haystack is
\* empty or has an index outside the topology, or whose cutoff is not
\* positive.
C9_EagerValidation ==
    IsStored(a) =>
        /\ a.query # {}
        /\ a.haystack # {}
        /\ (a.query \cup a.haystack) \subseteq AtomIdxs(a.topology)
        /\ a.cutoff > 0

-----------------------------------------------------------------------------
(* Properties of the difference and of the queries (SpecDifference).       *)

\* the Counter the last query read: the contacts of out.slot at out.level
QueriedCounter == Contacts(out.slot, out.level).count.counter

\* the maps of the operands of dif at a level
PositiveCounter(level) == StoredContacts(Deref(dif.positive), level).counter

NegativeCounter(level) == StoredContacts(Deref(dif.negative), level).counter

\* C5: the contacts read from a difference have the keys of the positive map
\* and of the negative map, each once, and hold for each the positive value
\* (0 if missing) minus the negative value (0 if missing), also where that is
\* 0 or negative; the difference of an object with itself holds 0 for every
\* key of the object.
C5_DifferenceCorrectness ==
    (out.kind = "counter" /\ out.slot = "dif") =>
        LET P == PositiveCounter(out.level)
            N == NegativeCounter(out.level)
        IN  /\ CounterKeys(out.value) = CounterKeys(P) \cup CounterKeys(N)
            /\ NoDuplicateKeys(out.value)
            /\ \A pair \in CounterKeys(out.value) :
                  CounterValue(out.value, pair) =
                      RatSub(CounterValue(P, pair), CounterValue(N, pair))
            /\ (dif.positive = dif.negative) =>
                  /\ CounterKeys(out.value) = CounterKeys(P)
                  /\ \A pair \in CounterKeys(P) :
                        CounterValue(out.value, pair) = Zero

\* a difference was read that holds a negative value, a 0 and a positive
\* value, one of them for a key the positive map does not have
C5_Witness ==
    /\ out.kind = "counter"
    /\ out.slot = "dif"
    /\ \E pair \in CounterKeys(out.value) :
          RatLess(CounterValue(out.value, pair), Zero)
    /\ \E pair \in CounterKeys(out.value) :
          CounterValue(out.value, pair) = Zero
    /\ \E pair \in CounterKeys(out.value) :
          RatLess(Zero, CounterValue(out.value, pair))
    /\ CounterKeys(out.value) # CounterKeys(PositiveCounter(out.level))

\* C6: in the sparse matrix of a contact object or of a difference, the cells
\* (i, j) and (j, i) of a stored pair {i, j} both hold the pair's value, and
\* every other cell holds 0.
C6_MatrixSymmetry ==
    (out.kind = "sparse_matrix") =>
        LET counter == QueriedCounter
            n == LevelSize(Deref(out.slot).topology, out.level)
        IN  /\ DOMAIN out.value = (0 .. (n - 1)) \X (0 .. (n - 1))
            /\ \A i \in 0 .. (n - 1), j \in 0 .. (n - 1) :
                  /\ out.value[<<i, j>>] = out.value[<<j, i>>]
                  /\ out.value[<<i, j>>] =
                        IF i # j /\ CounterHas(counter, {i, j})
                        THEN CounterValue(counter, {i, j})
                        ELSE Zero

\* the matrix of a difference was read, with a negative cell, a positive cell
\* and a stored pair whose value is 0
C6_Witness ==
    /\ out.kind = "sparse_matrix"
    /\ out.slot = "dif"
    /\ \E cell \in DOMAIN out.value : RatLess(out.value[cell], Zero)
    /\ \E cell \in DOMAIN out.value : RatLess(Zero, out.value[cell])
    /\ \E pair \in CounterKeys(QueriedCounter) :
          CounterValue(QueriedCounter, pair) = Zero

\* most_common() lists every stored pair once, with its value, by
\* descending value
RankedByValue ==
    /\ Len(out.value) = Len(QueriedCounter)
    /\ {[key |-> out.value[i].key, val |-> out.value[i].val] :
           i \in 1 .. Len(out.value)} = Items(QueriedCounter)
    /\ \A i \in 1 .. Len(out.value) :
          out.value[i].objects =
              {ObjectOf(Contacts(out.slot, out.level).count, idx) :
                  idx \in out.value[i].key}
    /\ \A i, j \in 1 .. Len(out.value) :
          i < j => RatLeq(out.value[j].val, out.value[i].val)

\* C7 as claimed: most_common() lists every stored pair once, by descending
\* value, and pairs of equal value in natural pair order.
C7_NaturalTieOrder ==
    (out.kind = "most_common") =>
        /\ RankedByValue
        /\ \A i, j \in 1 .. Len(out.value) :
              (i < j /\ out.value[i].val = out.value[j].val) =>
                  PairLess(out.value[i].key, out.value[j].key)

\* C7, amended: most_common() lists every stored pair once, by descending
\* value, and pairs of equal value in the order in which the Counter iterates
\* them, which is the order in which they were first inserted.
C7_RankingOrder ==
    (out.kind = "most_common") =>
        /\ RankedByValue
        /\ \A i, j \in 1 .. Len(out.value) :
              (i < j /\ out.value[i].val = out.value[j].val) =>
                  CounterIndex(QueriedCounter, out.value[i].key)
                      < CounterIndex(QueriedCounter, out.value[j].key)

\* a ranking was read in which two pairs of equal value stand against the
\* natural pair order, and other pairs have other values
C7_Witness ==
    /\ out.kind = "most_common"
    /\ \E i, j \in 1 .. Len(out.value) :
          /\ i < j
          /\ out.value[i].val = out.value[j].val
          /\ PairLess(out.value[j].key, out.value[i].key)
    /\ \E i, j \in 1 .. Len(out.value) :
          RatLess(out.value[j].val, out.value[i].val)

\* C8: no subtraction with a difference as an operand returns a difference
\* object.
C8_NoRedifferencing ==
    ~(/\ out.kind = "ContactDifference"
      /\ "dif" \in {out.positive, out.negative})

\* C10: once a contact object or a difference exists, no query and no
\* difference built from it or evaluated changes its tallies, query,
\* haystack, cutoff or n_neighbors_ignored.
C10_Immutability ==
    [][/\ (a # NoObj) => (a' = a)
       /\ (b # NoObj) => (b' = b)
       /\ (dif # NoObj) => (dif' = dif)]_vars

\* the contacts of a difference were read whose positive operand is a
\* ContactMap, and the values read are not those the operand stores
C10_Witness ==
    /\ out.kind = "counter"
    /\ out.slot = "dif"
    /\ Deref(dif.positive).kind = "ContactMap"
    /\ out.value # RawCounts(Deref(dif.positive), out.level)
    /\ RawCounts(Deref(dif.positive), out.level) # <<>>

-----------------------------------------------------------------------------
(* Properties of the detector under a neighbour search that returns more   *)
(* than the atoms within the cutoff (SpecCandidates).                      *)

\* the pairs of a query atom and a haystack atom within the cutoff of it that
\* is not in the exclusion set of the query atom's residue
TrueContacts(obj) ==
    {{pr[1], pr[2]} :
       pr \in {qy \in obj.query \X (obj.haystack \cap AtomIdxs(obj.topology)) :
                 /\ qy[2] \in WithinCutoff(obj.trajectory.distances[1],
                                            obj.cutoff, qy[1])
                 /\ qy[2] \notin residue_ignore_atom_idxs(obj)[
                        AtomResidueIdx(obj.topology, qy[1])]}}

\* the candidate lists are exactly the atoms within the cutoff
ExactCandidates(obj) ==
    \A x \in AtomIdxs(obj.topology) :
        ListsOf(obj)[x + 1] =
            WithinCutoff(obj.trajectory.distances[1], obj.cutoff, x)

\* C11 as claimed: when every candidate list holds at least the atoms within
\* the cutoff, the atom contacts of a ContactMap are exactly the pairs of a
\* query atom and a haystack atom that are within the cutoff and not
\* excluded by residue, and no reported pair is farther apart than the cutoff.
C11_ConservativeCandidates ==
    a.kind = "ContactMap" =>
        /\ CounterKeys(a.atom_counts) = TrueContacts(a)
        /\ \A p \in CounterKeys(a.atom_counts) :
              Cardinality(p) = 2 => a.trajectory.distances[1][p] <= a.cutoff

\* C11, amended: when every candidate list holds at least the atoms within
\* the cutoff, the atom contacts of a ContactMap hold every pair of a query
\* atom and a haystack atom that are within the cutoff and not excluded by
\* residue, each once; they are exactly these pairs, none farther apart than
\* the cutoff, when every candidate list is exactly the atoms within the
\* cutoff.
C11_ExactCandidates ==
    a.kind = "ContactMap" =>
        /\ TrueContacts(a) \subseteq CounterKeys(a.atom_counts)
        /\ NoDuplicateKeys(a.atom_counts)
        /\ ExactCandidates(a) =>
              /\ CounterKeys(a.atom_counts) = TrueContacts(a)
              /\ \A p \in CounterKeys(a.atom_counts) :
                    a.trajectory.distances[1][p] <= a.cutoff

\* the candidate lists are exact; a query atom has a haystack atom within
\* the cutoff that is reported, one within the cutoff that is excluded by
\* residue, and one beyond the cutoff that is not reported
C11_Witness ==
    /\ a.kind = "ContactMap"
    /\ ExactCandidates(a)
    /\ \E x \in a.query :
          /\ \E y \in a.haystack :
                /\ y \in WithinCutoff(a.trajectory.distances[1], a.cutoff, x)
                /\ {x, y} \in CounterKeys(a.atom_counts)
          /\ \E y \in a.haystack \ {x} :
                /\ y \in WithinCutoff(a.trajectory.distances[1], a.cutoff, x)
                /\ AtomResidueIdx(a.topology, y) # AtomResidueIdx(a.topology, x)
                /\ {x, y} \notin CounterKeys(a.atom_counts)
          /\ \E y \in a.haystack \ {x} :
                /\ a.trajectory.distances[1][{x, y}] > a.cutoff
                /\ {x, y} \notin CounterKeys(a.atom_counts)

-----------------------------------------------------------------------------
(* Properties of the atoms of a residue contact (SpecContact).             *)

\* the atom contacts of an object, in most-common order, that have one atom
\* in each of the two residues
AtomContactsBetween(obj, residues) ==
    SelectSeq(most_common(StoredContacts(obj, "atom"), <<>>),
              LAMBDA item :
                  \E r \in residues, s \in residues :
                     /\ r # s
                     /\ \E x \in ResidueAtomIdxs(obj.topology, r),
                           y \in ResidueAtomIdxs(obj.topology, s) :
                           item.key = {x, y})

\* C12: most_common_atoms_for_contact, for two distinct residues given each
\* as an object or as an index, ends without an error and returns the atom
\* contacts, in most-common order, that have one atom in each of the two
\* residues, whichever way the residues were given.
C12_IndexOrObject ==
    /\ out.kind # "Exception"
    /\ out.kind = "most_common_atoms_for_contact" =>
          out.value = AtomContactsBetween(
                          a, {res.index : res \in out.contact_pair})

====
